---- MODULE Spec2Model ----
(***************************************************************************)
(* Model of the fluistern history store (src/src/database.rs), of the      *)
(* configuration store (src/src/config.rs), and of the Save button and    *)
(* the log view of the window (src/src/main.rs).                           *)
(*                                                                         *)
(* The history store is a SQLite file with two tables.  Every SQL          *)
(* statement the application executes runs in autocommit mode (the code    *)
(* opens no transaction), so a statement is the unit of atomicity:         *)
(* update_correction is three statements (UPDATE, SELECT, INSERT) and is   *)
(* modelled as three steps.  The external producer (the dictation          *)
(* pipeline) works on the same file through its own connection.            *)
(*                                                                         *)
(* Text values are TLA+ strings.  An Option<String> is a sequence of       *)
(* length 0 (None) or 1 (Some).  RFC 3339 timestamps are sequences of      *)
(* digits compared lexicographically, as the TEXT column is by SQLite.     *)
(* A recordings row carries id, timestamp, whisper_output, llm_output and  *)
(* user_correction; the duration, success and error_message columns are    *)
(* written by the producer alone and read back like llm_output.            *)
(***************************************************************************)
EXTENDS Integers, Sequences, FiniteSets, TLC

VARIABLES
    recordings,      \* table recordings: a set of rows
    corrections,     \* table corrections: a set of rows
    rec_seq,         \* sqlite_sequence of recordings (AUTOINCREMENT)
    cor_seq,         \* sqlite_sequence of corrections (AUTOINCREMENT)
    pc,              \* position of the application's event loop
    call,            \* the store operation in progress or just returned
    fetched,         \* update_correction's local `recording`
    ret,             \* what the operation returned
    pre,             \* the two tables as they were when the operation was called
    config,          \* EnvConfig.config
    env_file,        \* the file at EnvConfig.env_file: None, or Some(contents)
    cfg_last,        \* the last operation on the configuration store
    cfg_saved,       \* EnvConfig.config as it was when save last wrote the file
    cfg_sets,        \* number of EnvConfig::set calls so far
    log_file,        \* the log file: None, or Some of its contents and mtime
    log_text,        \* the text of AppState.log_view's buffer
    last_log_mtime,  \* AppState.last_log_mtime
    log_watcher_id,  \* AppState.log_watcher_id
    timeouts,        \* the timeout sources attached to the main loop
    window_open,     \* the window has not handled a close request
    tail             \* what the last timer tick did, and the file changes so far

dbvars == <<recordings, corrections, rec_seq, cor_seq, pc, call, fetched, ret, pre>>
cfgvars == <<config, env_file, cfg_last, cfg_saved, cfg_sets>>
logvars == <<log_file, log_text, last_log_mtime, log_watcher_id, timeouts,
             window_open, tail>>
vars == <<recordings, corrections, rec_seq, cor_seq, pc, call, fetched, ret, pre,
          config, env_file, cfg_last, cfg_saved, cfg_sets,
          log_file, log_text, last_log_mtime, log_watcher_id, timeouts,
          window_open, tail>>

(***************************************************************************)
(* Bounds of the model.                                                    *)
(***************************************************************************)
MaxRecId == 2        \* recordings the producer inserts in one run
MaxCorId == 2        \* correction patterns inserted in one run
MaxListed == 3       \* rows of the recordings table drawn by InitList
MaxPatterns == 21    \* rows of the corrections table drawn by InitExport
MaxSets == 1         \* EnvConfig::set calls in one run

\* Option<String>
None == <<>>
Some(s) == <<s>>

\* RFC 3339 instants in one representation (same offset, same width): the
\* string of instant n is its two digits.
Digits(n) == <<n \div 10, n % 10>>

\* Instants the rows of a drawn recordings table carry.
Timestamps == {Digits(8), Digits(9), Digits(10)}

WhisperOutputs == {None, Some(""), Some("hallo welt")}
LlmOutputs == {Some("Hallo Welt.")}
CorrectionTexts == {"Hallo, Welt!", "x"}
NoCall == [op |-> "none"]
NoRet == [status |-> "none"]
NoPre == [recordings |-> {}, corrections |-> {}]

Min(a, b) == IF a <= b THEN a ELSE b

\* Byte-wise comparison of two TEXT values (SQLite's BINARY collation).
RECURSIVE LexLess(_, _)
LexLess(a, b) ==
    IF b = <<>> THEN FALSE
    ELSE IF a = <<>> THEN TRUE
    ELSE IF Head(a) # Head(b) THEN Head(a) < Head(b)
    ELSE LexLess(Tail(a), Tail(b))

LexLeq(a, b) == a = b \/ LexLess(a, b)

Ids(rows) == {r.id : r \in rows}

\* SELECT * FROM recordings WHERE id = ?  (rows.next())
SelectById(recs, id) ==
    IF \E r \in recs : r.id = id
    THEN Some(CHOOSE r \in recs : r.id = id)
    ELSE None

\* UPDATE recordings SET user_correction = ? WHERE id = ?
UpdateUserCorrectionAll(recs, id, text) ==
    {[r EXCEPT !.user_correction = Some(text)] : r \in recs}

UpdateUserCorrectionIfUnset(recs, id, text) ==
    {IF r.id = id /\ r.user_correction = None
     THEN [r EXCEPT !.user_correction = Some(text)] ELSE r : r \in recs}

UpdateUserCorrection(recs, id, text) ==
    {IF r.id = id THEN [r EXCEPT !.user_correction = Some(text)] ELSE r : r \in recs}

\* if let Some(whisper_output) = recording.whisper_output
HasWhisperOutput(rec) == rec.whisper_output # None

\* INSERT INTO corrections (whisper_pattern, intended_text, created_at)
NewCorrectionSwapped(cid, rec, text, now) ==
    [id |-> cid,
     whisper_pattern |-> text,
     intended_text |-> rec.whisper_output[1],
     created_at |-> now]

NewCorrection(cid, rec, text, now) ==
    [id |-> cid,
     whisper_pattern |-> rec.whisper_output[1],
     intended_text |-> text,
     created_at |-> now]

\* DELETE FROM recordings WHERE id = ?
DeleteById(recs, id) == {r \in recs : r.id # id}

(***************************************************************************)
(* Initial state of the history store: Database::new on a fresh file.      *)
(***************************************************************************)
InitDb ==
    /\ recordings = {}
    /\ corrections = {}
    /\ rec_seq = 0
    /\ cor_seq = 0
    /\ pc = "idle"
    /\ call = NoCall
    /\ fetched = None
    /\ ret = NoRet
    /\ pre = NoPre

(***************************************************************************)
(* Queries.  ORDER BY leaves the order of rows with equal keys to the      *)
(* query planner: every order that is sorted on the key is a possible      *)
(* result.                                                                 *)
(***************************************************************************)
\* SELECT * FROM recordings ORDER BY timestamp DESC
RECURSIVE OrderByTimestampAsc(_)
OrderByTimestampAsc(recs) ==
    IF recs = {} THEN {<<>>}
    ELSE UNION {{<<r>> \o t : t \in OrderByTimestampAsc(recs \ {r})} :
                r \in {x \in recs : \A y \in recs : LexLeq(x.timestamp, y.timestamp)}}

RECURSIVE OrderByTimestampDesc(_)
OrderByTimestampDesc(recs) ==
    IF recs = {} THEN {<<>>}
    ELSE UNION {{<<r>> \o t : t \in OrderByTimestampDesc(recs \ {r})} :
                r \in {x \in recs : \A y \in recs : LexLeq(y.timestamp, x.timestamp)}}

\* LIMIT ?
Limit(rows, n) == SubSeq(rows, 1, Min(n, Len(rows)))

\* SELECT * FROM corrections ORDER BY created_at DESC
RECURSIVE OrderByCreatedAtDesc(_)
OrderByCreatedAtDesc(cors) ==
    IF cors = {} THEN {<<>>}
    ELSE UNION {{<<c>> \o t : t \in OrderByCreatedAtDesc(cors \ {c})} :
                c \in {x \in cors : \A y \in cors : LexLeq(y.created_at, x.created_at)}}

(***************************************************************************)
(* export_corrections_for_prompt.  A string built by format! or join is    *)
(* the sequence of the pieces it is concatenated from; the empty string    *)
(* is the empty sequence.                                                  *)
(***************************************************************************)
PromptLimit == 20

Header == "\n\nUser correction patterns (use these to better understand what the user means):"

\* format!("- When transcribed as \"{}\", the user meant: \"{}\"", ..)
FormatLine(c) ==
    <<"- When transcribed as \"", c.whisper_pattern,
      "\", the user meant: \"", c.intended_text, "\"">>

\* corrections.iter().take(20)
TakeAll(cs) == cs

Take(cs) == SubSeq(cs, 1, Min(PromptLimit, Len(cs)))

\* lines.join("\n")
RECURSIVE Join(_)
Join(lines) ==
    IF lines = <<>> THEN <<>>
    ELSE IF Len(lines) = 1 THEN lines[1]
    ELSE lines[1] \o <<"\n">> \o Join(Tail(lines))

ExportText(cs) ==
    IF cs = <<>> THEN <<>>
    ELSE Join(<<<<Header>>>> \o [i \in 1..Len(Take(cs)) |-> FormatLine(Take(cs)[i])])

(***************************************************************************)
(* Utc::now().to_rfc3339(): time passes between two writes to the store,   *)
(* so the clock reads the number of rows inserted so far.                  *)
(***************************************************************************)
Now == Digits(rec_seq + cor_seq + 1)

(***************************************************************************)
(* The external producer, on its own connection.                           *)
(***************************************************************************)
ProducerInsert ==
    /\ rec_seq < MaxRecId
    /\ \E wo \in WhisperOutputs, lo \in LlmOutputs :
          recordings' = recordings \cup
              {[id |-> rec_seq + 1, timestamp |-> Now, whisper_output |-> wo,
                llm_output |-> lo, user_correction |-> None]}
    /\ rec_seq' = rec_seq + 1
    /\ UNCHANGED <<corrections, cor_seq, pc, call, fetched, ret, pre>>
    /\ UNCHANGED cfgvars
    /\ UNCHANGED logvars

ProducerModify ==
    /\ \E r \in recordings, wo \in WhisperOutputs :
          /\ wo # r.whisper_output
          /\ recordings' = (recordings \ {r}) \cup {[r EXCEPT !.whisper_output = wo]}
    /\ UNCHANGED <<corrections, rec_seq, cor_seq, pc, call, fetched, ret, pre>>
    /\ UNCHANGED cfgvars
    /\ UNCHANGED logvars

ProducerDelete ==
    /\ \E r \in recordings : recordings' = recordings \ {r}
    /\ UNCHANGED <<corrections, rec_seq, cor_seq, pc, call, fetched, ret, pre>>
    /\ UNCHANGED cfgvars
    /\ UNCHANGED logvars

(***************************************************************************)
(* The application's store operations.  Each statement may fail with a     *)
(* storage error (ok = FALSE), which the `?` operator returns to the       *)
(* caller.                                                                 *)
(***************************************************************************)
\* Ids the write operations are called with: ids of rows that exist, that
\* were deleted, or that the producer has not inserted yet.
RecordingIds == 1..MaxRecId

\* Ids get_recording is called with on a drawn table.
ListedIds == 1..(MaxListed + 1)

Limits == 0..(MaxListed + 1)

get_all_recordings ==
    /\ pc = "idle"
    /\ \E limit \in Limits, ok \in BOOLEAN :
          /\ call' = [op |-> "get_all_recordings", limit |-> limit]
          /\ IF ok
             THEN \E rows \in OrderByTimestampDesc(recordings) :
                     ret' = [status |-> "Ok", value |-> Limit(rows, limit)]
             ELSE ret' = [status |-> "Err"]
    /\ pc' = "returned"
    /\ pre' = [recordings |-> recordings, corrections |-> corrections]
    /\ UNCHANGED <<recordings, corrections, rec_seq, cor_seq, fetched>>
    /\ UNCHANGED cfgvars
    /\ UNCHANGED logvars

get_recording ==
    /\ pc = "idle"
    /\ \E id \in ListedIds, ok \in BOOLEAN :
          /\ call' = [op |-> "get_recording", id |-> id]
          /\ ret' = IF ok THEN [status |-> "Ok", value |-> SelectById(recordings, id)]
                    ELSE [status |-> "Err"]
    /\ pc' = "returned"
    /\ pre' = [recordings |-> recordings, corrections |-> corrections]
    /\ UNCHANGED <<recordings, corrections, rec_seq, cor_seq, fetched>>
    /\ UNCHANGED cfgvars
    /\ UNCHANGED logvars

\* update_correction, first statement: the UPDATE.
update_correction ==
    /\ pc = "idle"
    /\ cor_seq < MaxCorId
    /\ \E id \in RecordingIds, text \in CorrectionTexts, ok \in BOOLEAN :
          /\ call' = [op |-> "update_correction", id |-> id, text |-> text]
          /\ IF ok
             THEN /\ recordings' = UpdateUserCorrection(recordings, id, text)
                  /\ pc' = "uc_select"
                  /\ ret' = NoRet
             ELSE /\ recordings' = recordings
                  /\ pc' = "returned"
                  /\ ret' = [status |-> "Err"]
    /\ pre' = [recordings |-> recordings, corrections |-> corrections]
    /\ UNCHANGED <<corrections, rec_seq, cor_seq, fetched>>
    /\ UNCHANGED cfgvars
    /\ UNCHANGED logvars

\* update_correction, second statement: self.get_recording(recording_id)?
update_correction_select ==
    /\ pc = "uc_select"
    /\ \E ok \in BOOLEAN :
          IF ok
          THEN LET got == SelectById(recordings, call.id) IN
               /\ fetched' = got
               /\ IF got # None /\ HasWhisperOutput(got[1])
                  THEN pc' = "uc_insert" /\ ret' = NoRet
                  ELSE pc' = "returned" /\ ret' = [status |-> "Ok"]
          ELSE /\ fetched' = None
               /\ pc' = "returned"
               /\ ret' = [status |-> "Err"]
    /\ UNCHANGED <<recordings, corrections, rec_seq, cor_seq, call, pre>>
    /\ UNCHANGED cfgvars
    /\ UNCHANGED logvars

\* update_correction, third statement: the INSERT, with Utc::now().
update_correction_insert ==
    /\ pc = "uc_insert"
    /\ \E ok \in BOOLEAN :
          IF ok
          THEN /\ corrections' = corrections \cup
                     {NewCorrection(cor_seq + 1, fetched[1], call.text, Now)}
               /\ cor_seq' = cor_seq + 1
               /\ ret' = [status |-> "Ok"]
          ELSE /\ UNCHANGED <<corrections, cor_seq>>
               /\ ret' = [status |-> "Err"]
    /\ pc' = "returned"
    /\ UNCHANGED <<recordings, rec_seq, call, fetched, pre>>
    /\ UNCHANGED cfgvars
    /\ UNCHANGED logvars

\* The corrections table after DELETE FROM recordings: the statement names
\* no other table and the schema declares no foreign key or trigger.
CorrectionsAfterDeleteCascade(cors, recs, id) ==
    {c \in cors : \A r \in recs : r.id = id => Some(c.whisper_pattern) # r.whisper_output}

CorrectionsAfterDelete(cors, recs, id) == cors

delete_recording ==
    /\ pc = "idle"
    /\ \E id \in RecordingIds, ok \in BOOLEAN :
          /\ call' = [op |-> "delete_recording", id |-> id]
          /\ IF ok
             THEN /\ recordings' = DeleteById(recordings, id)
                  /\ corrections' = CorrectionsAfterDelete(corrections, recordings, id)
                  /\ ret' = [status |-> "Ok"]
             ELSE /\ UNCHANGED <<recordings, corrections>>
                  /\ ret' = [status |-> "Err"]
    /\ pc' = "returned"
    /\ pre' = [recordings |-> recordings, corrections |-> corrections]
    /\ UNCHANGED <<rec_seq, cor_seq, fetched>>
    /\ UNCHANGED cfgvars
    /\ UNCHANGED logvars

get_corrections ==
    /\ pc = "idle"
    /\ \E ok \in BOOLEAN :
          /\ call' = [op |-> "get_corrections"]
          /\ IF ok
             THEN \E rows \in OrderByCreatedAtDesc(corrections) :
                     ret' = [status |-> "Ok", value |-> rows]
             ELSE ret' = [status |-> "Err"]
    /\ pc' = "returned"
    /\ pre' = [recordings |-> recordings, corrections |-> corrections]
    /\ UNCHANGED <<recordings, corrections, rec_seq, cor_seq, fetched>>
    /\ UNCHANGED cfgvars
    /\ UNCHANGED logvars

\* `listed` is what the inner self.get_corrections()? returned.
export_corrections_for_prompt ==
    /\ pc = "idle"
    /\ \E ok \in BOOLEAN :
          IF ok
          THEN \E rows \in OrderByCreatedAtDesc(corrections) :
                  /\ call' = [op |-> "export_corrections_for_prompt", listed |-> rows]
                  /\ ret' = [status |-> "Ok", value |-> ExportText(rows)]
          ELSE /\ call' = [op |-> "export_corrections_for_prompt", listed |-> <<>>]
               /\ ret' = [status |-> "Err"]
    /\ pc' = "returned"
    /\ pre' = [recordings |-> recordings, corrections |-> corrections]
    /\ UNCHANGED <<recordings, corrections, rec_seq, cor_seq, fetched>>
    /\ UNCHANGED cfgvars
    /\ UNCHANGED logvars

\* The caller takes the result; the event loop is free again.
Return ==
    /\ pc = "returned"
    /\ pc' = "idle"
    /\ call' = NoCall
    /\ ret' = NoRet
    /\ fetched' = None
    /\ pre' = NoPre
    /\ UNCHANGED <<recordings, corrections, rec_seq, cor_seq>>
    /\ UNCHANGED cfgvars
    /\ UNCHANGED logvars


(***************************************************************************)
(* The log view and its watcher (src/src/main.rs).                         *)
(*                                                                         *)
(* The log file belongs to the producer, which creates, rewrites and       *)
(* removes it.  A modification time is a number, UNIX_EPOCH is 0.          *)
(***************************************************************************)
MaxMtime == 2
MaxLogChanges == 2

UNIX_EPOCH == 0

Mtimes == 1..MaxMtime

LogContents == {"", "[12:00] start\n", "[12:00] start\n[12:01] done\n"}

LogFiles == {None} \cup {Some([content |-> c, mtime |-> t]) : c \in LogContents, t \in Mtimes}

Placeholder == "No logs yet.\n\nLogs will be created on next voice input."

\* No tick has run and the file has not changed.
NoTail ==
    [changes |-> 0, changed |-> FALSE, ticked |-> FALSE, fresh |-> FALSE,
     saw_file |-> FALSE, saw_file_before |-> FALSE, quiet |-> FALSE,
     read |-> FALSE, wrote |-> FALSE, wrote_before |-> FALSE, late |-> FALSE]

\* refresh_logs: the buffer text it leaves; read_to_string can fail.
refresh_logs(file, text, read_ok) ==
    IF file # None
    THEN IF read_ok THEN file[1].content ELSE text
    ELSE Placeholder

\* *state.last_log_mtime.borrow_mut() = mtime
ObservedMtimeKept(last, mtime) == last

ObservedMtime(last, mtime) == mtime

\* id.remove()
KeepSource(sources, id) == sources

RemoveSource(sources, id) == sources \ {id}

\* The state build_ui leaves: start_log_watcher has shown the file once and
\* attached the 2-second timeout; last_log_mtime is still UNIX_EPOCH.
start_log_watcher(file) ==
    /\ log_file = file
    /\ \E read_ok \in BOOLEAN : log_text = refresh_logs(file, "", read_ok)
    /\ last_log_mtime = UNIX_EPOCH
    /\ log_watcher_id = Some(1)
    /\ timeouts = {1}
    /\ window_open = TRUE
    /\ tail = NoTail

InitLog == start_log_watcher(None)

\* The closure of timeout_add_seconds_local: one timer tick.
tick ==
    /\ 1 \in timeouts
    /\ \E read_ok \in BOOLEAN :
          LET newer == log_file # None /\ log_file[1].mtime > last_log_mtime IN
          /\ last_log_mtime' = IF newer
                               THEN ObservedMtime(last_log_mtime, log_file[1].mtime)
                               ELSE last_log_mtime
          /\ log_text' = IF newer THEN refresh_logs(log_file, log_text, read_ok)
                         ELSE log_text
          /\ tail' = [tail EXCEPT !.ticked = TRUE,
                                  !.fresh = TRUE,
                                  !.changed = FALSE,
                                  !.saw_file = (log_file # None),
                                  !.saw_file_before = (tail.ticked /\ tail.saw_file),
                                  !.quiet = (tail.ticked /\ ~tail.changed),
                                  !.read = newer,
                                  !.wrote = (newer /\ read_ok),
                                  !.wrote_before = (tail.ticked /\ tail.wrote),
                                  !.late = ~window_open]
    /\ UNCHANGED <<log_file, log_watcher_id, timeouts, window_open>>
    /\ UNCHANGED <<dbvars, cfgvars>>

\* The Refresh button: refresh_history, refresh_logs, refresh_corrections.
refresh_btn_clicked ==
    /\ window_open
    /\ \E read_ok \in BOOLEAN : log_text' = refresh_logs(log_file, log_text, read_ok)
    /\ tail' = [tail EXCEPT !.fresh = FALSE]
    /\ UNCHANGED <<log_file, last_log_mtime, log_watcher_id, timeouts, window_open>>
    /\ UNCHANGED <<dbvars, cfgvars>>

\* The Clear logs button: remove the file if it exists, empty the buffer.
clear_logs_clicked ==
    /\ window_open
    /\ log_file' = None
    /\ log_text' = ""
    /\ tail' = [tail EXCEPT !.fresh = FALSE, !.changed = (tail.changed \/ log_file # None)]
    /\ UNCHANGED <<last_log_mtime, log_watcher_id, timeouts, window_open>>
    /\ UNCHANGED <<dbvars, cfgvars>>

\* window.connect_close_request: take the watcher id and remove its source.
close_request ==
    /\ window_open
    /\ window_open' = FALSE
    /\ log_watcher_id' = None
    /\ timeouts' = IF log_watcher_id # None
                   THEN RemoveSource(timeouts, log_watcher_id[1])
                   ELSE timeouts
    /\ tail' = [tail EXCEPT !.fresh = FALSE]
    /\ UNCHANGED <<log_file, log_text, last_log_mtime>>
    /\ UNCHANGED <<dbvars, cfgvars>>

\* The producer creates or rewrites the log file; the new modification time
\* need not be later than the old one.
LogWrite ==
    /\ tail.changes < MaxLogChanges
    /\ \E f \in LogFiles \ {None, log_file} : log_file' = f
    /\ tail' = [tail EXCEPT !.fresh = FALSE, !.changed = TRUE, !.changes = @ + 1]
    /\ UNCHANGED <<log_text, last_log_mtime, log_watcher_id, timeouts, window_open>>
    /\ UNCHANGED <<dbvars, cfgvars>>

\* The log file is removed from outside the application.
LogRemove ==
    /\ tail.changes < MaxLogChanges
    /\ log_file # None
    /\ log_file' = None
    /\ tail' = [tail EXCEPT !.fresh = FALSE, !.changed = TRUE, !.changes = @ + 1]
    /\ UNCHANGED <<log_text, last_log_mtime, log_watcher_id, timeouts, window_open>>
    /\ UNCHANGED <<dbvars, cfgvars>>

(***************************************************************************)
(* The configuration store (src/src/config.rs).                            *)
(*                                                                         *)
(* A string is the sequence of its characters.  The characters the code    *)
(* tests for (whitespace, newline, '=', '#', the two quote characters) are *)
(* one-character strings; a run of other characters (a key name, the text  *)
(* of a comment, a word) is one element of the sequence.                   *)
(***************************************************************************)
IsWhitespace(c) == c \in {" ", "\t", "\r", "\n"}

\* char::is_whitespace stripping of str::trim
RECURSIVE TrimStart(_)
TrimStart(s) ==
    IF s # <<>> /\ IsWhitespace(Head(s)) THEN TrimStart(Tail(s)) ELSE s

RECURSIVE TrimEnd(_)
TrimEnd(s) ==
    IF s # <<>> /\ IsWhitespace(s[Len(s)]) THEN TrimEnd(SubSeq(s, 1, Len(s) - 1)) ELSE s

Trim(s) == TrimEnd(TrimStart(s))

\* str::trim_matches(ch): every leading and every trailing ch is removed
RECURSIVE TrimStartMatches(_, _)
TrimStartMatches(s, ch) ==
    IF s # <<>> /\ Head(s) = ch THEN TrimStartMatches(Tail(s), ch) ELSE s

RECURSIVE TrimEndMatches(_, _)
TrimEndMatches(s, ch) ==
    IF s # <<>> /\ s[Len(s)] = ch
    THEN TrimEndMatches(SubSeq(s, 1, Len(s) - 1), ch)
    ELSE s

TrimMatches(s, ch) == TrimEndMatches(TrimStartMatches(s, ch), ch)

\* str::split_once(ch): None, or Some(<<before, after>>) around the first ch
SplitOnce(s, ch) ==
    IF \E i \in 1..Len(s) : s[i] = ch
    THEN LET i == CHOOSE i \in 1..Len(s) : s[i] = ch /\ \A j \in 1..(i - 1) : s[j] # ch
         IN  Some(<<SubSeq(s, 1, i - 1), SubSeq(s, i + 1, Len(s))>>)
    ELSE None

\* str::lines(): split at "\n", a "\r" before the "\n" belongs to the line
\* ending, the last line needs no line ending.
StripLineEnding(l) ==
    IF l # <<>> /\ l[Len(l)] = "\r" THEN SubSeq(l, 1, Len(l) - 1) ELSE l

RECURSIVE Lines(_)
Lines(content) ==
    IF content = <<>> THEN <<>>
    ELSE LET nl == SplitOnce(content, "\n")
         IN  IF nl = None THEN <<content>>
             ELSE <<StripLineEnding(nl[1][1])>> \o Lines(nl[1][2])

\* DEFAULT_SYSTEM_PROMPT, abridged: its first line, a blank line, a line with
\* words in double quotes, a line with an apostrophe, and its last line, which
\* opens with a quoted sentence.  No line of the constant holds a '='.
DEFAULT_SYSTEM_PROMPT ==
    <<"You are an intelligent dictation formatter.", "\n",
      "\n",
      "\"", "Absatz", "\"", " ", "or", " ", "\"", "Paragraph", "\"", "\n",
      "Usually it", "'", "s the most important word", "\n",
      "Output:", " ", "\"", "Fasse das in einem Video zusammen.", "\"", " ",
      "- NOT following the command, just formatting it">>

\* The six keys, in the order save writes them.
KnownKeys ==
    <<"GROQ_API_KEY", "MIC_SOURCE", "LANGUAGE", "NOTIFICATIONS", "TRAY_ICON",
      "SYSTEM_PROMPT">>

\* A key of the HashMap: the String of a key name.
Key(name) == <<name>>

\* HashMap::insert
Insert(cfg, k, v) == [x \in (DOMAIN cfg) \cup {k} |-> IF x = k THEN v ELSE cfg[x]]

\* EnvConfig::get
Get(cfg, k) == IF k \in DOMAIN cfg THEN Some(cfg[k]) ELSE None

\* Option::unwrap_or
UnwrapOr(opt, d) == IF opt = None THEN d ELSE opt[1]

\* The six inserts that open EnvConfig::load.
DefaultConfig ==
    [k \in {Key(KnownKeys[i]) : i \in 1..6} |->
        IF k = Key("SYSTEM_PROMPT") THEN DEFAULT_SYSTEM_PROMPT
        ELSE IF k \in {Key("NOTIFICATIONS"), Key("TRAY_ICON")} THEN <<"true">>
        ELSE <<>>]

\* The body of load's loop for one line of the file.
ParseValue(value) == TrimMatches(TrimMatches(Trim(value), "\""), "'")

ParseLine(cfg, raw) ==
    LET line == Trim(raw)
    IN  IF line = <<>> \/ Head(line) = "#" THEN cfg
        ELSE LET kv == SplitOnce(line, "=")
             IN  IF kv = None THEN cfg
                 ELSE Insert(cfg, kv[1][1], ParseValue(kv[1][2]))

RECURSIVE LoadLinesFirstWins(_, _)
LoadLinesFirstWins(cfg, lines) ==
    IF lines = <<>> THEN cfg
    ELSE ParseLine(LoadLinesFirstWins(cfg, Tail(lines)), Head(lines))

RECURSIVE LoadLines(_, _)
LoadLines(cfg, lines) ==
    IF lines = <<>> THEN cfg
    ELSE LoadLines(ParseLine(cfg, Head(lines)), Tail(lines))

\* EnvConfig::load on a fresh map; fs::read_to_string fails on a missing or
\* unreadable file.
Load(file) ==
    IF file = None THEN DefaultConfig
    ELSE LoadLines(DefaultConfig, Lines(file[1]))

\* writeln!(content, "# ...")
Comment(text) == <<"#", text, "\n">>

\* writeln!(content, "KEY=\"{}\"", value)
EntryUnquoted(name, value) == <<name, "=">> \o value \o <<"\n">>

EntryTwice(name, value) ==
    <<name, "=", "\"">> \o value \o <<"\"", "\n">> \o
    <<name, "=", "\"">> \o value \o <<"\"", "\n">>

Entry(name, value) == <<name, "=", "\"">> \o value \o <<"\"", "\n">>

\* The bytes EnvConfig::save writes.
SaveContent(cfg) ==
       Comment(" Voice Input Configuration")
    \o Comment(" Get your Groq API key from: https://console.groq.com/keys")
    \o Entry("GROQ_API_KEY", UnwrapOr(Get(cfg, Key("GROQ_API_KEY")), <<>>))
    \o <<"\n">>
    \o Comment(" Selected microphone source (leave empty for default, or set via tray menu)")
    \o Comment(" Run 'pactl list sources short' to see available sources")
    \o Entry("MIC_SOURCE", UnwrapOr(Get(cfg, Key("MIC_SOURCE")), <<>>))
    \o <<"\n">>
    \o Comment(" Language for transcription (e.g., \"de\" for German, \"en\" for English)")
    \o Comment(" Leave empty for auto-detect")
    \o Entry("LANGUAGE", UnwrapOr(Get(cfg, Key("LANGUAGE")), <<>>))
    \o <<"\n">>
    \o Comment(" Show notifications (true/false, default: true)")
    \o Entry("NOTIFICATIONS", UnwrapOr(Get(cfg, Key("NOTIFICATIONS")), <<"true">>))
    \o <<"\n">>
    \o Comment(" Show tray icon (true/false, default: true)")
    \o Entry("TRAY_ICON", UnwrapOr(Get(cfg, Key("TRAY_ICON")), <<"true">>))
    \o <<"\n">>
    \o Comment(" System prompt for LLM formatting (customize to improve output)")
    \o Entry("SYSTEM_PROMPT", UnwrapOr(Get(cfg, Key("SYSTEM_PROMPT")), DEFAULT_SYSTEM_PROMPT))
    \o <<"\n">>

\* Values the callers of set pass in.
ValueSamples ==
    {<<>>, <<"a">>, <<" ">>, <<" ", "a">>, <<"a", " ">>, <<"a", " ", "b">>,
     <<"=">>, <<"a", "=", "b">>, <<"#", "a">>, <<"a", "#">>, <<"false">>,
     <<"\"", "a", "\"">>, <<"a", "\"">>, <<"'", "a", "'">>, <<"a", "\n", "b">>}

\* EnvConfig::new(env_file) with no file at the path.
InitCfg ==
    /\ env_file = None
    /\ config = Load(None)
    /\ cfg_last = "new"
    /\ cfg_saved = <<>>
    /\ cfg_sets = 0

\* Keys the callers of set pass in: the six known keys, and a key the
\* application does not know.
SetKeys == {KnownKeys[i] : i \in 1..6} \cup {"FOO"}

\* EnvConfig::set
set ==
    /\ cfg_sets < MaxSets
    /\ \E name \in SetKeys, v \in ValueSamples :
          config' = Insert(config, Key(name), v)
    /\ cfg_sets' = cfg_sets + 1
    /\ cfg_last' = "set"
    /\ UNCHANGED <<env_file, cfg_saved>>
    /\ UNCHANGED dbvars
    /\ UNCHANGED logvars

\* EnvConfig::save; fs::write fails when the file cannot be created.
save ==
    /\ \E ok \in BOOLEAN :
          IF ok
          THEN /\ env_file' = Some(SaveContent(config))
               /\ cfg_saved' = config
               /\ cfg_last' = "save"
          ELSE /\ UNCHANGED <<env_file, cfg_saved>>
               /\ cfg_last' = "save_failed"
    /\ UNCHANGED <<config, cfg_sets>>
    /\ UNCHANGED dbvars
    /\ UNCHANGED logvars

\* EnvConfig::new(env_file) again: open
open ==
    /\ config' = Load(env_file)
    /\ cfg_last' = "open"
    /\ UNCHANGED <<env_file, cfg_saved, cfg_sets>>
    /\ UNCHANGED dbvars
    /\ UNCHANGED logvars

\* The file the application finds at start: none, the file an earlier run
\* saved after the user replaced the system prompt, or a hand-written file
\* with a key the application does not know.
CustomPrompt == <<"Format", " ", "the text.">>

HandWrittenFile ==
    <<"FOO", "=", "\"", "bar", "\"", "\n",
      "GROQ_API_KEY", "=", "'", "sk-123", "'", "\n">>

InitFiles ==
    {None,
     Some(SaveContent(Insert(DefaultConfig, Key("SYSTEM_PROMPT"), CustomPrompt))),
     Some(HandWrittenFile)}

InitConfig ==
    /\ InitDb
    /\ InitLog
    /\ env_file \in InitFiles
    /\ config = Load(env_file)
    /\ cfg_last = "new"
    /\ cfg_saved = <<>>
    /\ cfg_sets = 0

NextConfig ==
    \/ set
    \/ save
    \/ open

SpecConfig == InitConfig /\ [][NextConfig]_vars

(***************************************************************************)
(* SpecLoad: the file at the config path was written by hand or by another *)
(* program; the application opens it, saves it and opens it again.         *)
(***************************************************************************)
MaxFileLines == 2

\* Lines found in such a file.
LineSamples ==
    {<<"GROQ_API_KEY", "=", "\"", "sk-123", "\"">>,
     <<"GROQ_API_KEY", "=", "'", "sk-123", "'">>,
     <<"GROQ_API_KEY", "=", "b">>,
     <<"GROQ_API_KEY", "=">>,
     <<" ", "GROQ_API_KEY", " ", "=", " ", "c", " ">>,
     <<"GROQ_API_KEY", "=", "\"", "\"", "a", "\"", "\"">>,
     <<"GROQ_API_KEY", "=", "\"", "a">>,
     <<"GROQ_API_KEY", "=", "\"", "'", "a", "'", "\"">>,
     <<"#", " ", "GROQ_API_KEY", "=", "z">>,
     <<" ", "#", "GROQ_API_KEY", "=", "z">>,
     <<>>,
     <<" ", "\t">>,
     <<"novalue">>,
     <<"NOTIFICATIONS", "=", "\"", "false", "\"">>,
     <<"SYSTEM_PROMPT", "=", "x", "=", "y">>,
     <<"FOO", "=", "\"", "bar", "\"">>}

RECURSIVE FileOf(_)
FileOf(lines) ==
    IF lines = <<>> THEN <<>>
    ELSE Head(lines) \o <<"\n">> \o FileOf(Tail(lines))

DrawnFiles ==
    {None} \cup
    {Some(FileOf(ls)) : ls \in UNION {[1..n -> LineSamples] : n \in 0..MaxFileLines}}

InitLoad ==
    /\ InitDb
    /\ InitLog
    /\ env_file \in DrawnFiles
    /\ config = Load(env_file)
    /\ cfg_last = "new"
    /\ cfg_saved = <<>>
    /\ cfg_sets = 0

NextLoad ==
    \/ save
    \/ open

SpecLoad == InitLoad /\ [][NextLoad]_vars

(***************************************************************************)
(* Spec: the application's event loop runs one store operation at a time   *)
(* and the producer writes between operations.                             *)
(***************************************************************************)
Init == InitDb /\ InitCfg /\ InitLog

Producer ==
    \/ ProducerInsert
    \/ ProducerModify
    \/ ProducerDelete

Next ==
    \/ (pc = "idle" /\ Producer)
    \/ update_correction
    \/ update_correction_select
    \/ update_correction_insert
    \/ delete_recording
    \/ Return

Spec == Init /\ [][Next]_vars

(***************************************************************************)
(* SpecConc: the producer's connection writes at any point, also between   *)
(* the statements of update_correction.                                    *)
(***************************************************************************)
NextConc ==
    \/ ProducerInsert
    \/ ProducerModify
    \/ ProducerDelete
    \/ update_correction
    \/ update_correction_select
    \/ update_correction_insert
    \/ Return

SpecConc == Init /\ [][NextConc]_vars

(***************************************************************************)
(* SpecTail: the log view, its timer, the Refresh and Clear logs buttons   *)
(* and the close request, with the log file changing underneath.           *)
(* SpecTailFair adds that the timer keeps firing while it is attached.     *)
(***************************************************************************)
InitTail ==
    /\ InitDb
    /\ InitCfg
    /\ \E f \in LogFiles : start_log_watcher(f)

NextTail ==
    \/ tick
    \/ refresh_btn_clicked
    \/ clear_logs_clicked
    \/ close_request
    \/ LogWrite
    \/ LogRemove

SpecTail == InitTail /\ [][NextTail]_vars

SpecTailFair == InitTail /\ [][NextTail]_vars /\ WF_vars(tick)

(***************************************************************************)
(* SpecIntent: the Save button of a recording row (src/src/main.rs,        *)
(* create_recording_row).  The text of the row's correction field is a     *)
(* sequence of characters, as the strings of the configuration store are.  *)
(***************************************************************************)
\* What the user left in the correction field.
FieldTexts ==
    {<<>>, <<" ">>, <<"\n", "\t">>, <<"x">>, <<" ", "x">>, <<"x", "\n">>,
     <<" ", "Hallo,", " ", "Welt!", " ">>}

\* let correction = text.trim()
CorrectionUntrimmed(raw) == raw

CorrectionOf(raw) == Trim(raw)

\* save_btn.connect_clicked: trim the field; an empty text ends the handler,
\* any other goes to db.update_correction, whose first statement runs here.
save_btn_clicked ==
    /\ pc = "idle"
    /\ \E id \in RecordingIds, raw \in FieldTexts, ok \in BOOLEAN :
          LET correction == CorrectionOf(raw) IN
          IF correction # <<>>
          THEN /\ cor_seq < MaxCorId
               /\ call' = [op |-> "update_correction", id |-> id,
                           text |-> correction, raw |-> raw, refreshed |-> FALSE]
               /\ IF ok
                  THEN /\ recordings' = UpdateUserCorrection(recordings, id, correction)
                       /\ pc' = "uc_select"
                       /\ ret' = NoRet
                  ELSE /\ recordings' = recordings
                       /\ pc' = "returned"
                       /\ ret' = [status |-> "Err"]
          ELSE /\ call' = [op |-> "none", id |-> id, raw |-> raw, refreshed |-> FALSE]
               /\ recordings' = recordings
               /\ pc' = "handled"
               /\ ret' = NoRet
    /\ pre' = [recordings |-> recordings, corrections |-> corrections]
    /\ UNCHANGED <<corrections, rec_seq, cor_seq, fetched>>
    /\ UNCHANGED cfgvars
    /\ UNCHANGED logvars

\* The handler after db.update_correction returned: eprintln! on Err, else
\* refresh_history and refresh_corrections.
save_btn_done ==
    /\ pc = "returned"
    /\ pc' = "handled"
    /\ call' = [call EXCEPT !.refreshed = (ret.status # "Err")]
    /\ UNCHANGED <<recordings, corrections, rec_seq, cor_seq, fetched, ret, pre>>
    /\ UNCHANGED cfgvars
    /\ UNCHANGED logvars

\* The handler returns to the event loop.
save_btn_return ==
    /\ pc = "handled"
    /\ pc' = "idle"
    /\ call' = NoCall
    /\ ret' = NoRet
    /\ fetched' = None
    /\ pre' = NoPre
    /\ UNCHANGED <<recordings, corrections, rec_seq, cor_seq>>
    /\ UNCHANGED cfgvars
    /\ UNCHANGED logvars

NextIntent ==
    \/ (pc = "idle" /\ ProducerInsert)
    \/ save_btn_clicked
    \/ update_correction_select
    \/ update_correction_insert
    \/ save_btn_done
    \/ save_btn_return

SpecIntent == Init /\ [][NextIntent]_vars

(***************************************************************************)
(* SpecList: the read operations on the recordings table, from every       *)
(* table of at most MaxListed rows over Timestamps.                        *)
(***************************************************************************)
DrawnRecordings(k, ts) ==
    {[id |-> i, timestamp |-> ts[i], whisper_output |-> Some("hallo welt"),
      llm_output |-> Some("Hallo Welt."), user_correction |-> None] : i \in 1..k}

InitList ==
    /\ \E k \in 0..MaxListed : \E ts \in [1..k -> Timestamps] :
          /\ recordings = DrawnRecordings(k, ts)
          /\ rec_seq = k
    /\ corrections = {}
    /\ cor_seq = 0
    /\ pc = "idle"
    /\ call = NoCall
    /\ fetched = None
    /\ ret = NoRet
    /\ pre = NoPre
    /\ InitCfg
    /\ InitLog

NextList ==
    \/ get_all_recordings
    \/ get_recording
    \/ Return

SpecList == InitList /\ [][NextList]_vars

(***************************************************************************)
(* SpecExport: the read operations on the corrections table, from tables   *)
(* of at most MaxPatterns rows.  Row i was created at instant i, or, for   *)
(* the one row `tie`, at the same instant as the row before it.            *)
(***************************************************************************)
PatternSamples == <<"", "hallo", "hallo welt">>

DrawnCorrections(k, tie, v) ==
    {[id |-> i,
      whisper_pattern |-> PatternSamples[((i + v) % 3) + 1],
      intended_text |-> IF ((i \div 2) + v) % 2 = 0 THEN "x" ELSE "Hallo, Welt!",
      created_at |-> Digits(IF i = tie /\ i > 1 THEN i - 1 ELSE i)] : i \in 1..k}

InitExport ==
    /\ \E k \in 0..MaxPatterns : \E tie \in 0..k : \E v \in 0..2 :
          /\ corrections = DrawnCorrections(k, tie, v)
          /\ cor_seq = k
          /\ rec_seq = IF k = 0 THEN 0 ELSE 1
    /\ recordings = {}
    /\ pc = "idle"
    /\ call = NoCall
    /\ fetched = None
    /\ ret = NoRet
    /\ pre = NoPre
    /\ InitCfg
    /\ InitLog

NextExport ==
    \/ get_corrections
    \/ export_corrections_for_prompt
    \/ Return

SpecExport == InitExport /\ [][NextExport]_vars

(***************************************************************************)
(* Properties of update_correction and delete_recording.                   *)
(***************************************************************************)
UcReturned == pc = "returned" /\ call.op = "update_correction"

UcKnownId == call.id \in Ids(pre.recordings)

\* The row update_correction was called for, as it was at the call.
UcTarget == CHOOSE r \in pre.recordings : r.id = call.id

\* C1: an update_correction that returns an error leaves recordings and
\* corrections exactly as they were before the call (all or nothing).
UpdateCorrectionAllOrNothing ==
    (UcReturned /\ ret.status = "Err") =>
        /\ recordings = pre.recordings
        /\ corrections = pre.corrections

\* C2: update_correction with an id that matches no recording returns an
\* error to the caller; it does not report success.
UnknownIdReportsNotFound ==
    (UcReturned /\ ~UcKnownId) => ret.status # "Ok"

\* C3: update_correction with an id that matches no recording changes
\* nothing: no correction-pattern row is inserted, at no point of the call,
\* and every recording and correction row is as before.
UnknownIdChangesNothing ==
    (pc # "idle" /\ call.op = "update_correction" /\ ~UcKnownId) =>
        /\ recordings = pre.recordings
        /\ corrections = pre.corrections
        /\ pc # "uc_insert"

UnknownIdWitness ==
    /\ UcReturned
    /\ ~UcKnownId
    /\ ret.status = "Ok"
    /\ pre.recordings # {}
    /\ pre.corrections # {}

\* C4: after a successful update_correction(id, x) on a recording whose
\* whisper_output is non-empty, the recording's user_correction is x, the
\* corrections table has exactly one more row, with whisper_pattern the
\* recording's whisper_output and intended_text x, and every other recording
\* and every other field of the recording is unchanged.
SuccessfulCorrectionPostcondition ==
    (/\ UcReturned
     /\ ret.status = "Ok"
     /\ UcKnownId
     /\ UcTarget.whisper_output \notin {None, Some("")}) =>
        LET now == SelectById(recordings, call.id)
            added == corrections \ pre.corrections
        IN  /\ now # None
            /\ now[1].user_correction = Some(call.text)
            /\ now[1].timestamp = UcTarget.timestamp
            /\ now[1].whisper_output = UcTarget.whisper_output
            /\ now[1].llm_output = UcTarget.llm_output
            /\ Ids(recordings) = Ids(pre.recordings)
            /\ Cardinality(recordings) = Cardinality(pre.recordings)
            /\ \A q \in pre.recordings : q.id # call.id => q \in recordings
            /\ pre.corrections \subseteq corrections
            /\ Cardinality(added) = 1
            /\ \A c \in added :
                  /\ c.whisper_pattern = UcTarget.whisper_output[1]
                  /\ c.intended_text = call.text
                  /\ c.id \notin Ids(pre.corrections)

SuccessfulCorrectionWitness ==
    /\ UcReturned
    /\ ret.status = "Ok"
    /\ UcKnownId
    /\ UcTarget.whisper_output = Some("hallo welt")
    /\ call.text = "Hallo, Welt!"
    /\ Cardinality(pre.recordings) = 2
    /\ pre.corrections # {}
    /\ \E q \in pre.recordings : q.id # call.id /\ q.user_correction # Some(call.text)

\* C5: no correction-pattern row has an empty whisper_pattern.
NoEmptyWhisperPattern ==
    \A c \in corrections : c.whisper_pattern # ""

\* C6: correction patterns are append-only: every row that exists keeps
\* existing, with the same id, whisper_pattern, intended_text and created_at,
\* over every step of the store, delete_recording included.
CorrectionsAppendOnly ==
    [][\A c \in corrections : c \in corrections']_vars

DeleteKeptDerivedPattern ==
    /\ pc = "returned"
    /\ call.op = "delete_recording"
    /\ ret.status = "Ok"
    /\ call.id \in Ids(pre.recordings)
    /\ call.id \notin Ids(recordings)
    /\ \E c \in corrections :
          /\ Some(c.whisper_pattern) = UcTarget.whisper_output
          /\ Some(c.intended_text) = UcTarget.user_correction

\* C7: update_correction is isolated from the producer: in no state has the
\* recording's user_correction been written while the matching pattern row
\* is still missing, and a call that succeeds has inserted a pattern whose
\* whisper_pattern is the whisper_output the recording had when its
\* user_correction was written.
UpdateCorrectionIsolated ==
    /\ ~(/\ pc \in {"uc_select", "uc_insert"}
         /\ UcKnownId
         /\ UcTarget.whisper_output \notin {None, Some("")})
    /\ (/\ UcReturned
        /\ ret.status = "Ok"
        /\ UcKnownId
        /\ UcTarget.whisper_output \notin {None, Some("")}) =>
          \E c \in corrections \ pre.corrections :
              /\ c.whisper_pattern = UcTarget.whisper_output[1]
              /\ c.intended_text = call.text

(***************************************************************************)
(* Properties of the read operations.                                      *)
(***************************************************************************)
Range(q) == {q[i] : i \in 1..Len(q)}

\* C8: list_recordings(n) returns min(n, number of recordings) rows, never
\* more than n, ordered by timestamp descending, and they are the rows with
\* the greatest timestamps.
ListRecordingsContract ==
    (pc = "returned" /\ call.op = "get_all_recordings" /\ ret.status = "Ok") =>
        LET out == ret.value
            n == call.limit
        IN  /\ Len(out) = Min(n, Cardinality(recordings))
            /\ Len(out) <= n
            /\ Range(out) \subseteq recordings
            /\ Cardinality(Range(out)) = Len(out)
            /\ \A i, j \in 1..Len(out) :
                  i < j => LexLeq(out[j].timestamp, out[i].timestamp)
            /\ \A r \in recordings \ Range(out) : \A i \in 1..Len(out) :
                  LexLeq(r.timestamp, out[i].timestamp)

ListRecordingsWitness ==
    /\ pc = "returned"
    /\ call.op = "get_all_recordings"
    /\ ret.status = "Ok"
    /\ call.limit = 2
    /\ Cardinality(recordings) = 3
    /\ ret.value[1].timestamp # ret.value[2].timestamp
    /\ \E r \in recordings \ Range(ret.value) : r.timestamp = ret.value[2].timestamp

\* C9: export_prompt_context() returns the empty string if and only if there
\* are no correction patterns; otherwise the header followed by exactly
\* min(k, 20) "- When transcribed as" lines, one for each of the first
\* min(k, 20) patterns in the order list_corrections() returned them
\* (created_at descending), k being the number of patterns.
ExportPromptContract ==
    (pc = "returned" /\ call.op = "export_corrections_for_prompt" /\ ret.status = "Ok") =>
        LET out == ret.value
            listed == call.listed
            k == Cardinality(corrections)
            m == Min(k, 20)
        IN  /\ (out = <<>>) <=> (k = 0)
            /\ Len(listed) = k
            /\ Range(listed) = corrections
            /\ \A i, j \in 1..k :
                  i < j => LexLeq(listed[j].created_at, listed[i].created_at)
            /\ k > 0 =>
                  /\ Len(out) = 1 + 6 * m
                  /\ out[1] = Header
                  /\ Cardinality({p \in 1..Len(out) : out[p] = "- When transcribed as \""}) = m
                  /\ \A i \in 1..m :
                        /\ out[6 * i - 4] = "\n"
                        /\ out[6 * i - 3] = "- When transcribed as \""
                        /\ out[6 * i - 2] = listed[i].whisper_pattern
                        /\ out[6 * i - 1] = "\", the user meant: \""
                        /\ out[6 * i] = listed[i].intended_text
                        /\ out[6 * i + 1] = "\""

ExportPromptWitness ==
    /\ pc = "returned"
    /\ call.op = "export_corrections_for_prompt"
    /\ ret.status = "Ok"
    /\ Cardinality(corrections) = 21
    /\ Len(ret.value) = 121
    /\ call.listed[20].created_at = call.listed[21].created_at

(***************************************************************************)
(* Properties of the configuration store.                                  *)
(***************************************************************************)
QuoteFree(v) == \A i \in 1..Len(v) : v[i] \notin {"\"", "'", "\n"}

KnownKeySet == {Key(KnownKeys[i]) : i \in 1..6}

\* C10: config round-trip: when each of the six known keys holds a string
\* with no quote character and no newline, save followed by open yields the
\* same value for each of the six keys.
ConfigRoundTrip ==
    (/\ cfg_last = "open"
     /\ cfg_saved # <<>>
     /\ \A k \in KnownKeySet : QuoteFree(cfg_saved[k])) =>
        \A k \in KnownKeySet : Get(config, k) = Some(cfg_saved[k])

ConfigRoundTripWitness ==
    /\ cfg_last = "open"
    /\ cfg_saved # <<>>
    /\ \A k \in KnownKeySet : QuoteFree(cfg_saved[k])
    /\ cfg_saved[Key("GROQ_API_KEY")] = <<" ", "a">>
    /\ cfg_saved[Key("SYSTEM_PROMPT")] = CustomPrompt
    /\ config = cfg_saved


\* C11: saving the default system prompt and opening the saved file again
\* gives back the default system prompt unchanged.
DefaultPromptRoundTrip ==
    (/\ cfg_last = "open"
     /\ cfg_saved # <<>>
     /\ Get(cfg_saved, Key("SYSTEM_PROMPT")) = Some(DEFAULT_SYSTEM_PROMPT)
     /\ env_file = Some(SaveContent(cfg_saved)))
        => Get(config, Key("SYSTEM_PROMPT")) = Some(DEFAULT_SYSTEM_PROMPT)


\* The map in memory is the one EnvConfig::new built from the file.
Opened == cfg_last \in {"new", "open"}

FileLines == IF env_file = None THEN <<>> ELSE Lines(env_file[1])

EqualsAt(line) == {i \in 1..Len(line) : line[i] = "=" /\ \A j \in 1..(i - 1) : line[j] # "="}

\* A line that assigns a key under load's grammar: trimmed, not empty, not a
\* comment, with a '='; its key is the text before the first '='.
WellFormed(raw) ==
    LET line == Trim(raw)
    IN  line # <<>> /\ line[1] # "#" /\ EqualsAt(line) # {}

KeyOf(raw) ==
    LET line == Trim(raw)
        i == CHOOSE i \in EqualsAt(line) : TRUE
    IN  SubSeq(line, 1, i - 1)

RawValueOf(raw) ==
    LET line == Trim(raw)
        i == CHOOSE i \in EqualsAt(line) : TRUE
    IN  SubSeq(line, i + 1, Len(line))

Assigning(k) == {n \in 1..Len(FileLines) : WellFormed(FileLines[n]) /\ KeyOf(FileLines[n]) = k}

LastAssigning(k) == CHOOSE n \in Assigning(k) : \A m \in Assigning(k) : m <= n

DefaultOf(k) ==
    IF k \in {Key("NOTIFICATIONS"), Key("TRAY_ICON")} THEN <<"true">>
    ELSE IF k = Key("SYSTEM_PROMPT") THEN DEFAULT_SYSTEM_PROMPT
    ELSE <<>>

\* C12: after open, each known key holds the value of the last well-formed
\* line of the file that assigns it, and its default when the file is
\* missing or has no such line; lines that are empty, comments or without
\* '=' contribute nothing, so the map holds the known keys and the keys of
\* the well-formed lines and nothing else.
LoadContract ==
    Opened =>
        /\ DOMAIN config =
              KnownKeySet \cup
              {KeyOf(FileLines[n]) : n \in {m \in 1..Len(FileLines) : WellFormed(FileLines[m])}}
        /\ \A k \in DOMAIN config :
              IF Assigning(k) = {}
              THEN config[k] = DefaultOf(k)
              ELSE config[k] = ParseValue(RawValueOf(FileLines[LastAssigning(k)]))

\* Two well-formed lines assign the API key different values, and the file
\* was opened.
LoadWitness ==
    /\ cfg_last = "open"
    /\ Cardinality(Assigning(Key("GROQ_API_KEY"))) = 2
    /\ \E n \in Assigning(Key("GROQ_API_KEY")) :
          ParseValue(RawValueOf(FileLines[n])) # config[Key("GROQ_API_KEY")]

\* Strip one pair of surrounding quote characters if present.
StripOnePair(v) ==
    IF Len(v) >= 2 /\ v[1] = v[Len(v)] /\ v[1] \in {"\"", "'"}
    THEN SubSeq(v, 2, Len(v) - 1)
    ELSE v

\* C19: the value of a parsed line is the text after the first '=', trimmed,
\* with at most one pair of surrounding quote characters stripped; further
\* quote characters and an unpaired quote stay in the value.
QuoteStripContract ==
    Opened =>
        \A k \in KnownKeySet :
            Assigning(k) # {} =>
                config[k] = StripOnePair(Trim(RawValueOf(FileLines[LastAssigning(k)])))


\* The places of the written file where an entry starts: the first token of
\* a line, followed by '='.
EntryStarts(content) ==
    {p \in 1..(Len(content) - 1) :
        /\ p = 1 \/ content[p - 1] = "\n"
        /\ content[p + 1] = "="}

\* C13: the file save writes holds exactly six entries, the six known keys
\* once each in the fixed order, each value between double quotes; a key
\* the map holds besides them is not written.
SaveContract ==
    cfg_last = "save" =>
        LET content == env_file[1]
            starts == EntryStarts(content)
        IN  /\ Cardinality(starts) = 6
            /\ \A i \in 1..6 :
                  \E p \in starts :
                      /\ Cardinality({q \in starts : q < p}) = i - 1
                      /\ content[p] = KnownKeys[i]
                      /\ LET v == IF Key(KnownKeys[i]) \in DOMAIN config
                                  THEN config[Key(KnownKeys[i])]
                                  ELSE DefaultOf(Key(KnownKeys[i]))
                         IN  SubSeq(content, p + 2, p + 4 + Len(v)) =
                                 <<"\"">> \o v \o <<"\"", "\n">>
            /\ \A p \in 1..Len(content) : content[p] # "FOO"

\* save ran while the map held the unknown key FOO.
SaveWitness ==
    /\ cfg_last = "save"
    /\ Key("FOO") \in DOMAIN config
    /\ config[Key("GROQ_API_KEY")] # <<>>


\* A step that changes the user_correction of a recording that stays in the
\* table is the UPDATE of an update_correction called for that recording.
UserCorrectionWrittenOnlyByUpdate ==
    \A r \in recordings : \A r2 \in recordings' :
        (r.id = r2.id /\ r.user_correction # r2.user_correction) =>
            /\ pc = "idle"
            /\ pc' # "idle"
            /\ call'.op = "update_correction"
            /\ call'.id = r.id
            /\ r2.user_correction = Some(call'.text)

\* C14: setting user_correction overwrites and is idempotent: after a
\* successful update_correction(id, t) the recording's user_correction is t
\* whatever it was before, and when it already was t the recordings table is
\* the same as before the call; no other operation changes a recording's
\* user_correction.
UserCorrectionOverwrites ==
    /\ [](( UcReturned /\ ret.status = "Ok" /\ UcKnownId) =>
            /\ \A r \in recordings : r.id = call.id => r.user_correction = Some(call.text)
            /\ call.id \in Ids(recordings)
            /\ UcTarget.user_correction = Some(call.text) => recordings = pre.recordings)
    /\ [][UserCorrectionWrittenOnlyByUpdate]_vars

\* update_correction(id, t) succeeded on a recording whose user_correction
\* already was t, and a pattern exists from the first call.
UserCorrectionTwiceWitness ==
    /\ UcReturned
    /\ ret.status = "Ok"
    /\ UcKnownId
    /\ UcTarget.user_correction = Some(call.text)
    /\ Cardinality(corrections) = 2


AllWhitespace(t) == \A i \in 1..Len(t) : IsWhitespace(t[i])

\* Not empty, and neither its first nor its last character is whitespace.
Tidy(t) == t # <<>> /\ ~IsWhitespace(t[1]) /\ ~IsWhitespace(t[Len(t)])

\* t is raw without the whitespace at its two ends.
TrimmedFrom(t, raw) ==
    \E i \in 1..Len(raw) : \E j \in i..Len(raw) :
        /\ t = SubSeq(raw, i, j)
        /\ AllWhitespace(SubSeq(raw, 1, i - 1))
        /\ AllWhitespace(SubSeq(raw, j + 1, Len(raw)))

\* C18: the Save button never stores an empty correction: a field text that
\* is empty after trimming ends the handler with no store operation
\* (recordings and corrections unchanged, nothing re-rendered); for any
\* other text the store receives the trimmed text; so every user_correction
\* and every intended_text is non-empty without whitespace at its ends.
SaveCorrectionIntent ==
    /\ (call # NoCall /\ AllWhitespace(call.raw)) =>
          /\ call.op = "none"
          /\ pc = "handled"
          /\ recordings = pre.recordings
          /\ corrections = pre.corrections
          /\ ~call.refreshed
    /\ (call # NoCall /\ ~AllWhitespace(call.raw)) =>
          /\ call.op = "update_correction"
          /\ Tidy(call.text)
          /\ TrimmedFrom(call.text, call.raw)
    /\ \A r \in recordings :
          r.user_correction # None => Tidy(r.user_correction[1])
    /\ \A c \in corrections : Tidy(c.intended_text)

\* The handler ended on a field holding only whitespace, after an earlier
\* click had stored a correction.
SaveCorrectionWitness ==
    /\ pc = "handled"
    /\ call.op = "none"
    /\ call.raw # <<>>
    /\ corrections # {}


(***************************************************************************)
(* Properties of the log view.                                             *)
(***************************************************************************)
\* C15: of two consecutive timer ticks between which the log file was not
\* created, modified or removed, the second neither reads the file nor
\* rewrites the log text.
TailerIdempotent ==
    (tail.fresh /\ tail.quiet) => (~tail.read /\ ~tail.wrote)

\* The tick before had shown the file, nothing changed, and this tick ran.
TailerIdempotentWitness ==
    /\ tail.fresh
    /\ tail.quiet
    /\ tail.wrote_before
    /\ log_file # None
    /\ log_text = log_file[1].content

\* C16: when the log file existed at one tick and is missing at the next,
\* that tick puts the placeholder into the log text.
PlaceholderOnRemoval ==
    (tail.fresh /\ tail.saw_file_before /\ ~tail.saw_file) => log_text = Placeholder

\* C17: once the close request has been handled no timer tick runs.
TailerStoppedOnClose == ~tail.late

\* The window is closed, the timer is gone, and the file has since changed
\* in a way a tick would have shown.
TailerStoppedWitness ==
    /\ ~window_open
    /\ timeouts = {}
    /\ log_file # None
    /\ log_file[1].mtime > last_log_mtime
    /\ tail.ticked
    /\ log_text # log_file[1].content

DisplayReflectsFile ==
    log_text = IF log_file = None THEN Placeholder ELSE log_file[1].content

\* C20: while the timer keeps ticking, once the log file stops changing the
\* log text eventually is the file's contents, or the placeholder when
\* there is no file, and stays so.
LogDisplayEventuallyReflectsFile ==
    <>(~window_open) \/ <>[]DisplayReflectsFile

====
